---- MODULE Spec2Model ----
(***************************************************************************)
(* A model of packages/datetime/src/common/dateUtils.ts.                   *)
(*                                                                         *)
(* A Date object is a cell of a heap holding a time value.  A time value   *)
(* is the pair (day, ms): the number of whole days since 1970-01-01 and    *)
(* the milliseconds within that day, i.e. the timestamp day * msPerDay +   *)
(* ms split in two so that it fits TLC's integers.  Local time carries no  *)
(* zone offset.  A call of a function of the module is one action: the     *)
(* caller allocates the argument Dates on a fresh heap, the function runs  *)
(* on it (allocating its clones and results) and its outcome is recorded.  *)
(***************************************************************************)
EXTENDS Integers, Sequences, FiniteSets, TLC

VARIABLES op, dates, ranges, flag, pre, heap, res, resRange, mom, momRange

vars == <<op, dates, ranges, flag, pre, heap, res, resRange, mom, momRange>>

(***************************************************************************)
(* Bounds of the inputs.                                                   *)
(***************************************************************************)
\* every sampled calendar day d also gives d + 1 .. d + MaxDayOffset
MaxDayOffset == 1
\* every sampled time of day t also gives t + 1 .. t + MaxMsOffset (in ms)
MaxMsOffset == 1

(***************************************************************************)
(* ECMAScript time arithmetic used by the Date calls of the source.        *)
(***************************************************************************)
msPerSecond == 1000
msPerMinute == 60000
msPerHour == 3600000
msPerDay == 86400000

JANUARY == 0
DECEMBER == 11

\* days from 1970-01-01 to the civil date y-m-d, m in 1..12 (proleptic Gregorian)
DaysFromCivil(y, m, d) ==
    LET yy == IF m <= 2 THEN y - 1 ELSE y
        era == yy \div 400
        yoe == yy - era * 400
        mp == IF m > 2 THEN m - 3 ELSE m + 9
        doy == (153 * mp + 2) \div 5 + d - 1
        doe == yoe * 365 + yoe \div 4 - yoe \div 100 + doy
    IN  era * 146097 + doe - 719468

\* the civil date of day number z: year, month (0..11) and day of the month
CivilFromDays(z) ==
    LET zz == z + 719468
        era == zz \div 146097
        doe == zz - era * 146097
        yoe == (doe - doe \div 1460 + doe \div 36524 - doe \div 146096) \div 365
        doy == doe - (365 * yoe + yoe \div 4 - yoe \div 100)
        mp == (5 * doy + 2) \div 153
        d == doy - (153 * mp + 2) \div 5 + 1
        m == IF mp < 10 THEN mp + 3 ELSE mp - 9
    IN  [y |-> yoe + era * 400 + (IF m <= 2 THEN 1 ELSE 0), mo |-> m - 1, d |-> d]

\* MakeDay(year, month, date): month may lie outside 0..11, date outside the month
MakeDay(y, mo, d) == DaysFromCivil(y + mo \div 12, (mo % 12) + 1, 1) + d - 1

MakeTime(h, mi, s, ms) == h * msPerHour + mi * msPerMinute + s * msPerSecond + ms

\* MakeDate(day, time): the time value, normalised
MakeDate(day, time) == [day |-> day + time \div msPerDay, ms |-> time % msPerDay]

\* the time value of an Invalid Date (NaN)
InvalidTime == [day |-> 0, ms |-> -1]

IsInvalidTime(t) == t.ms < 0

\* new Date(year, month, date, hours, minutes, seconds, ms): a year in 0..99
\* means 1900 + year
NewDate(y, mo, d, h, mi, s, ms) ==
    LET yr == IF 0 <= y /\ y <= 99 THEN 1900 + y ELSE y
    IN  MakeDate(MakeDay(yr, mo, d), MakeTime(h, mi, s, ms))

\* new Date(year, month): the 1st of the month at 00:00:00.000
NewDateYM(y, mo) == NewDate(y, mo, 1, 0, 0, 0, 0)

getFullYear(t) == CivilFromDays(t.day).y
getMonth(t) == CivilFromDays(t.day).mo
getDate(t) == CivilFromDays(t.day).d
getHours(t) == t.ms \div msPerHour
getMinutes(t) == (t.ms % msPerHour) \div msPerMinute
getSeconds(t) == (t.ms % msPerMinute) \div msPerSecond
getMilliseconds(t) == t.ms % msPerSecond

\* the relational operators on Dates and on getTime(): by timestamp
TimeLeq(t1, t2) == t1.day < t2.day \/ (t1.day = t2.day /\ t1.ms <= t2.ms)

\* Date.prototype.setHours(h, mi, s, ms) and setDate(d), on a time value
setHoursOf(t, h, mi, s, ms) == MakeDate(t.day, MakeTime(h, mi, s, ms))
setDateOf(t, d) == MakeDate(MakeDay(getFullYear(t), getMonth(t), d), t.ms)

(***************************************************************************)
(* Values: a reference to a Date of the heap, null or undefined.           *)
(***************************************************************************)
Null == [tag |-> "null", ref |-> 0]
Undefined == [tag |-> "undefined", ref |-> 0]
Ref(r) == [tag |-> "date", ref |-> r]

\* v == null
IsNullish(v) == v.tag \in {"null", "undefined"}
\* v === null
IsNull(v) == v.tag = "null"

\* a DateRange argument: a pair of values, or an absent range
NullRange == [tag |-> "null", lo |-> Null, hi |-> Null]
UndefinedRange == [tag |-> "undefined", lo |-> Undefined, hi |-> Undefined]
Range(lo, hi) == [tag |-> "range", lo |-> lo, hi |-> hi]

\* the outcome of a call: the heap it leaves, whether it threw (a TypeError on
\* reading a property of null or undefined), and its boolean or value result
Outcome(h, thrown, b, v) == [heap |-> h, thrown |-> thrown, b |-> b, v |-> v]
RetBool(h, b) == Outcome(h, FALSE, b, Undefined)
RetVal(h, v) == Outcome(h, FALSE, FALSE, v)
Throw(h) == Outcome(h, TRUE, FALSE, Undefined)

\* new Date(t) on heap h
Alloc(h, t) == RetVal(Append(h, t), Ref(Len(h) + 1))

\* a mutant of setHours0: the time of day is left as it is
setHours0_skip(h, d) == h

\* d.setHours(0, 0, 0, 0) and d.setDate(1) on the Date d of heap h
setHours0(h, d) == [h EXCEPT ![d.ref] = setHoursOf(h[d.ref], 0, 0, 0, 0)]
setDate1(h, d) == [h EXCEPT ![d.ref] = setDateOf(h[d.ref], 1)]

(***************************************************************************)
(* The functions of dateUtils.ts.                                          *)
(***************************************************************************)
areEqual(h, date1, date2) ==
    IF IsNullish(date1) /\ IsNullish(date2) THEN TRUE
    ELSE IF IsNullish(date1) \/ IsNullish(date2) THEN FALSE
    ELSE h[date1.ref] = h[date2.ref]

\* a mutant of areSameDay: the two Dates are compared by timestamp
areSameDay_exact(h, date1, date2) ==
    ~IsNullish(date1) /\ ~IsNullish(date2) /\ h[date1.ref] = h[date2.ref]

areSameDay(h, date1, date2) ==
    /\ ~IsNullish(date1)
    /\ ~IsNullish(date2)
    /\ getDate(h[date1.ref]) = getDate(h[date2.ref])
    /\ getMonth(h[date1.ref]) = getMonth(h[date2.ref])
    /\ getFullYear(h[date1.ref]) = getFullYear(h[date2.ref])

areSameMonth(h, date1, date2) ==
    /\ ~IsNullish(date1)
    /\ ~IsNullish(date2)
    /\ getMonth(h[date1.ref]) = getMonth(h[date2.ref])
    /\ getFullYear(h[date1.ref]) = getFullYear(h[date2.ref])

areSameTime(h, date1, date2) ==
    /\ ~IsNullish(date1)
    /\ ~IsNullish(date2)
    /\ getHours(h[date1.ref]) = getHours(h[date2.ref])
    /\ getMinutes(h[date1.ref]) = getMinutes(h[date2.ref])
    /\ getSeconds(h[date1.ref]) = getSeconds(h[date2.ref])
    /\ getMilliseconds(h[date1.ref]) = getMilliseconds(h[date2.ref])

areRangesEqual(h, dateRange1, dateRange2) ==
    IF dateRange1.tag # "range" /\ dateRange2.tag # "range" THEN TRUE
    ELSE IF dateRange1.tag # "range" \/ dateRange2.tag # "range" THEN FALSE
    ELSE LET areStartsEqual ==
                 \/ IsNullish(dateRange1.lo) /\ IsNullish(dateRange2.lo)
                 \/ areSameDay(h, dateRange1.lo, dateRange2.lo)
             areEndsEqual ==
                 \/ IsNullish(dateRange1.hi) /\ IsNullish(dateRange2.hi)
                 \/ areSameDay(h, dateRange1.hi, dateRange2.hi)
         IN  areStartsEqual /\ areEndsEqual

\* a mutant of clone: the Date itself is returned, not a copy
clone_alias(h, d) == IF IsNullish(d) THEN Throw(h) ELSE RetVal(h, d)

\* clone(d): d.getTime() throws on null and undefined
clone(h, d) == IF IsNullish(d) THEN Throw(h) ELSE Alloc(h, h[d.ref])

isDayInRange(h, date, dateRange, exclusive) ==
    IF IsNullish(date) THEN RetBool(h, FALSE)
    ELSE
        LET day == clone(h, date)
            start == clone(day.heap, dateRange.lo)
            end == clone(start.heap, dateRange.hi)
        IN  IF start.thrown THEN Throw(start.heap)
            ELSE IF end.thrown THEN Throw(end.heap)
            ELSE
                LET h1 == setHours0(setHours0(setHours0(end.heap, day.v), start.v), end.v)
                IN  RetBool(h1,
                        /\ TimeLeq(h1[start.v.ref], h1[day.v.ref])
                        /\ TimeLeq(h1[day.v.ref], h1[end.v.ref])
                        /\ (~exclusive \/ (~areSameDay(h1, start.v, day.v)
                                            /\ ~areSameDay(h1, day.v, end.v))))

isDayRangeInRange(h, innerRange, outerRange) ==
    LET first == IF IsNullish(innerRange.lo) THEN RetBool(h, TRUE)
                 ELSE isDayInRange(h, innerRange.lo, outerRange, FALSE)
    IN  IF first.thrown \/ ~first.b THEN first
        ELSE IF IsNullish(innerRange.hi) THEN RetBool(first.heap, TRUE)
        ELSE isDayInRange(first.heap, innerRange.hi, outerRange, FALSE)

isMonthInRange(h, date, dateRange) ==
    IF IsNullish(date) THEN RetBool(h, FALSE)
    ELSE
        LET day == clone(h, date)
            start == clone(day.heap, dateRange.lo)
            end == clone(start.heap, dateRange.hi)
        IN  IF start.thrown THEN Throw(start.heap)
            ELSE IF end.thrown THEN Throw(end.heap)
            ELSE
                LET h1 == setDate1(setDate1(setDate1(end.heap, day.v), start.v), end.v)
                    h2 == setHours0(setHours0(setHours0(h1, day.v), start.v), end.v)
                IN  RetBool(h2,
                        /\ TimeLeq(h2[start.v.ref], h2[day.v.ref])
                        /\ TimeLeq(h2[day.v.ref], h2[end.v.ref]))

isTimeEqualOrGreaterThan(h, time, timeToCompare) ==
    TimeLeq(h[timeToCompare.ref], h[time.ref])

isTimeEqualOrSmallerThan(h, time, timeToCompare) ==
    TimeLeq(h[time.ref], h[timeToCompare.ref])

\* new Date(0, 0, 0, hours, minutes, seconds, ms); date.getHours() throws on
\* null and undefined
getDateOnlyWithTime(h, date) ==
    IF IsNullish(date) THEN Throw(h)
    ELSE Alloc(h, NewDate(0, 0, 0, getHours(h[date.ref]), getMinutes(h[date.ref]),
                          getSeconds(h[date.ref]), getMilliseconds(h[date.ref])))

\* a mutant of isTimeInRange: the window never wraps past midnight
isTimeInRange_noWrap(h, date, minDate, maxDate) ==
    LET time == getDateOnlyWithTime(h, date)
        minTime == getDateOnlyWithTime(time.heap, minDate)
        maxTime == getDateOnlyWithTime(minTime.heap, maxDate)
        h1 == maxTime.heap
    IN  IF time.thrown \/ minTime.thrown \/ maxTime.thrown THEN Throw(h1)
        ELSE RetBool(h1, /\ isTimeEqualOrGreaterThan(h1, time.v, minTime.v)
                         /\ isTimeEqualOrSmallerThan(h1, time.v, maxTime.v))

isTimeInRange(h, date, minDate, maxDate) ==
    LET time == getDateOnlyWithTime(h, date)
        minTime == getDateOnlyWithTime(time.heap, minDate)
        maxTime == getDateOnlyWithTime(minTime.heap, maxDate)
        h1 == maxTime.heap
    IN  IF time.thrown \/ minTime.thrown \/ maxTime.thrown THEN Throw(h1)
        ELSE
            LET isTimeGreaterThanMinTime == isTimeEqualOrGreaterThan(h1, time.v, minTime.v)
                isTimeSmallerThanMaxTime == isTimeEqualOrSmallerThan(h1, time.v, maxTime.v)
            IN  IF isTimeEqualOrSmallerThan(h1, maxTime.v, minTime.v)
                THEN RetBool(h1, isTimeGreaterThanMinTime \/ isTimeSmallerThanMaxTime)
                ELSE RetBool(h1, isTimeGreaterThanMinTime /\ isTimeSmallerThanMaxTime)

\* a mutant of isTimeSameOrAfter: the comparison is reversed
isTimeSameOrAfter_reversed(h, date, dateToCompare) ==
    LET time == getDateOnlyWithTime(h, date)
        timeToCompare == getDateOnlyWithTime(time.heap, dateToCompare)
        h1 == timeToCompare.heap
    IN  IF time.thrown \/ timeToCompare.thrown THEN Throw(h1)
        ELSE RetBool(h1, isTimeEqualOrSmallerThan(h1, time.v, timeToCompare.v))

isTimeSameOrAfter(h, date, dateToCompare) ==
    LET time == getDateOnlyWithTime(h, date)
        timeToCompare == getDateOnlyWithTime(time.heap, dateToCompare)
        h1 == timeToCompare.heap
    IN  IF time.thrown \/ timeToCompare.thrown THEN Throw(h1)
        ELSE RetBool(h1, isTimeEqualOrGreaterThan(h1, time.v, timeToCompare.v))

\* a mutant of getTimeInRange: equal bounds are not told apart
getTimeInRange_noEqualCase(h, time, minTime, maxTime) ==
    LET inRange == isTimeInRange(h, time, minTime, maxTime)
        after == isTimeSameOrAfter(inRange.heap, time, maxTime)
    IN  IF inRange.thrown THEN inRange
        ELSE IF inRange.b THEN RetVal(inRange.heap, time)
        ELSE IF after.thrown THEN after
        ELSE IF after.b THEN RetVal(after.heap, maxTime)
        ELSE RetVal(after.heap, minTime)

getTimeInRange(h, time, minTime, maxTime) ==
    IF areSameTime(h, minTime, maxTime) THEN RetVal(h, maxTime)
    ELSE
        LET inRange == isTimeInRange(h, time, minTime, maxTime)
            after == isTimeSameOrAfter(inRange.heap, time, maxTime)
        IN  IF inRange.thrown THEN inRange
            ELSE IF inRange.b THEN RetVal(inRange.heap, time)
            ELSE IF after.thrown THEN after
            ELSE IF after.b THEN RetVal(after.heap, maxTime)
            ELSE RetVal(after.heap, minTime)

\* date === null and time === null: undefined passes both tests, and reading
\* its year or its hours throws
getDateTime(h, date, time) ==
    IF IsNull(date) THEN RetVal(h, Null)
    ELSE IF IsNull(time) THEN
        IF IsNullish(date) THEN Throw(h)
        ELSE Alloc(h, NewDate(getFullYear(h[date.ref]), getMonth(h[date.ref]),
                              getDate(h[date.ref]), 0, 0, 0, 0))
    ELSE
        IF IsNullish(date) \/ IsNullish(time) THEN Throw(h)
        ELSE Alloc(h, NewDate(getFullYear(h[date.ref]), getMonth(h[date.ref]),
                              getDate(h[date.ref]), getHours(h[time.ref]),
                              getMinutes(h[time.ref]), getSeconds(h[time.ref]),
                              getMilliseconds(h[time.ref])))

(***************************************************************************)
(* Moments.  moment([y, M, d, h, m, s, ms]) keeps a year in 0..99 as it is *)
(* (the library undoes the Date constructor's 1900 + year); moment(null)   *)
(* is an invalid moment flagged nullInput, whose fields are NaN.           *)
(***************************************************************************)
Moment(nullInput, t) == [tag |-> "moment", nullInput |-> nullInput, t |-> t]
NullMoment == [tag |-> "null", nullInput |-> FALSE, t |-> InvalidTime]
UndefinedMoment == [tag |-> "undefined", nullInput |-> FALSE, t |-> InvalidTime]

MomentFromArray(y, mo, d, h, mi, s, ms) ==
    Moment(FALSE, MakeDate(MakeDay(y, mo, d), MakeTime(h, mi, s, ms)))

fromDateToMoment(h, date) ==
    IF IsNullish(date) THEN Moment(TRUE, InvalidTime)
    ELSE MomentFromArray(getFullYear(h[date.ref]), getMonth(h[date.ref]),
                         getDate(h[date.ref]), getHours(h[date.ref]),
                         getMinutes(h[date.ref]), getSeconds(h[date.ref]),
                         getMilliseconds(h[date.ref]))

\* new Date(NaN, ...) is an Invalid Date
fromMomentToDate(h, momentDate) ==
    IF momentDate.tag # "moment" THEN RetVal(h, Undefined)
    ELSE IF IsInvalidTime(momentDate.t) THEN Alloc(h, InvalidTime)
    ELSE Alloc(h, NewDate(getFullYear(momentDate.t), getMonth(momentDate.t),
                          getDate(momentDate.t), getHours(momentDate.t),
                          getMinutes(momentDate.t), getSeconds(momentDate.t),
                          getMilliseconds(momentDate.t)))

UndefinedMomentRange == [tag |-> "undefined", lo |-> UndefinedMoment, hi |-> UndefinedMoment]
NullMomentRange == [tag |-> "null", lo |-> NullMoment, hi |-> NullMoment]

fromDateRangeToMomentDateRange(h, dateRange) ==
    IF dateRange.tag # "range" THEN UndefinedMomentRange
    ELSE [tag |-> "range", lo |-> fromDateToMoment(h, dateRange.lo),
          hi |-> fromDateToMoment(h, dateRange.hi)]

\* the heap after the call and the DateRange it returns
fromMomentDateRangeToDateRange(h, momentDateRange) ==
    IF momentDateRange.tag # "range" THEN [heap |-> h, range |-> UndefinedRange]
    ELSE LET lo == fromMomentToDate(h, momentDateRange.lo)
             hi == fromMomentToDate(lo.heap, momentDateRange.hi)
         IN  [heap |-> hi.heap, range |-> Range(lo.v, hi.v)]

\* date.getMonth() throws on null and undefined
getDatePreviousMonth(h, date) ==
    IF IsNullish(date) THEN Throw(h)
    ELSE IF getMonth(h[date.ref]) = JANUARY
    THEN Alloc(h, NewDateYM(getFullYear(h[date.ref]) - 1, DECEMBER))
    ELSE Alloc(h, NewDateYM(getFullYear(h[date.ref]), getMonth(h[date.ref]) - 1))

getDateNextMonth(h, date) ==
    IF IsNullish(date) THEN Throw(h)
    ELSE IF getMonth(h[date.ref]) = DECEMBER
    THEN Alloc(h, NewDateYM(getFullYear(h[date.ref]) + 1, JANUARY))
    ELSE Alloc(h, NewDateYM(getFullYear(h[date.ref]), getMonth(h[date.ref]) + 1))

(***************************************************************************)
(* The callers' inputs.                                                    *)
(***************************************************************************)
Offsets(n) == 0 .. n

\* calendar days: around a year boundary, in mid-month, around a leap day, and
\* around the end of a two-digit year
SampleDays ==
    { MakeDay(c[1], c[2], c[3]) + k :
        c \in { <<2023, 11, 31>>, <<2024, 0, 15>>, <<2024, 1, 28>>, <<50, 11, 31>> },
        k \in Offsets(MaxDayOffset) }

\* times of day: midnight, both sides of the window 23:00 .. 01:00, noon, and
\* the last millisecond of the day
SampleTimes ==
    { MakeTime(c[1], c[2], 0, 0) + k :
        c \in { <<0, 0>>, <<0, 30>>, <<1, 0>>, <<12, 0>>, <<23, 0>>, <<23, 30>> },
        k \in Offsets(MaxMsOffset) }
      \cup { msPerDay - 1 }

\* the Dates passed where the calendar day matters
DayInputs == { MakeDate(d, t) : d \in SampleDays, t \in { 0, msPerDay - 1 } }

\* the Dates passed where the time of day matters
TimeInputs ==
    { MakeDate(d, t) : d \in { MakeDay(2024, 0, 15), MakeDay(2024, 1, 29) },
                       t \in SampleTimes }

\* the Dates passed as the bounds of two ranges
BoundInputs ==
    { MakeDate(d, t) :
        d \in { MakeDay(2023, 11, 31) + k : k \in Offsets(MaxDayOffset) }
                \cup { MakeDay(2024, 0, 15) },
        t \in { 0, msPerDay - 1 } }

Absent == { Null, Undefined }

\* a heap holding the time values of ts, and the values referring to them in
\* order: the entries Null and Undefined of ts take no cell
RECURSIVE Place(_, _, _)
Place(ts, h, vs) ==
    IF ts = << >> THEN [heap |-> h, vals |-> vs]
    ELSE IF Head(ts) \in Absent THEN Place(Tail(ts), h, Append(vs, Head(ts)))
    ELSE Place(Tail(ts), Append(h, Head(ts)), Append(vs, Ref(Len(h) + 1)))

Placed(ts) == Place(ts, << >>, << >>)

NoMoment == [tag |-> "none", nullInput |-> FALSE, t |-> InvalidTime]
NoMomentRange == [tag |-> "none", lo |-> NoMoment, hi |-> NoMoment]
NoOutcome == [thrown |-> FALSE, b |-> FALSE, v |-> Undefined]

Init ==
    /\ op = "init"
    /\ dates = << >>
    /\ ranges = << >>
    /\ flag = FALSE
    /\ pre = << >>
    /\ heap = << >>
    /\ res = NoOutcome
    /\ resRange = UndefinedRange
    /\ mom = NoMoment
    /\ momRange = NoMomentRange

\* the record of a call of name on heap h0 with the given arguments and outcome
Called(name, ds, rs, f, h0, out) ==
    /\ op' = name
    /\ dates' = ds
    /\ ranges' = rs
    /\ flag' = f
    /\ pre' = h0
    /\ heap' = out.heap
    /\ res' = [thrown |-> out.thrown, b |-> out.b, v |-> out.v]

NoMoments == mom' = NoMoment /\ momRange' = NoMomentRange /\ resRange' = UndefinedRange

Idle == op = "init"

\* the caller drops the finished call's Dates and results
Return ==
    /\ ~Idle
    /\ op' = "init"
    /\ dates' = << >>
    /\ ranges' = << >>
    /\ flag' = FALSE
    /\ pre' = << >>
    /\ heap' = << >>
    /\ res' = NoOutcome
    /\ NoMoments

CallAreRangesEqual ==
    /\ Idle
    /\ \/ \E r1 \in { NullRange, UndefinedRange }, r2 \in { NullRange, UndefinedRange } :
            Called("areRangesEqual", << >>, <<r1, r2>>, FALSE, << >>,
                   RetBool(<< >>, areRangesEqual(<< >>, r1, r2)))
       \/ \E r1 \in { NullRange, UndefinedRange }, lo \in BoundInputs \cup Absent,
             hi \in BoundInputs \cup Absent, swap \in BOOLEAN :
            LET p == Placed(<<lo, hi>>)
                r2 == Range(p.vals[1], p.vals[2])
                a == IF swap THEN r2 ELSE r1
                b == IF swap THEN r1 ELSE r2
            IN  Called("areRangesEqual", << >>, <<a, b>>, FALSE, p.heap,
                       RetBool(p.heap, areRangesEqual(p.heap, a, b)))
       \/ \E lo1 \in BoundInputs \cup Absent, hi1 \in BoundInputs \cup Absent,
             lo2 \in BoundInputs \cup Absent, hi2 \in BoundInputs \cup Absent :
            LET p == Placed(<<lo1, hi1, lo2, hi2>>)
                r1 == Range(p.vals[1], p.vals[2])
                r2 == Range(p.vals[3], p.vals[4])
            IN  Called("areRangesEqual", << >>, <<r1, r2>>, FALSE, p.heap,
                       RetBool(p.heap, areRangesEqual(p.heap, r1, r2)))
    /\ NoMoments

CallClone ==
    /\ Idle
    /\ \E d \in DayInputs \cup Absent :
         LET p == Placed(<<d>>)
         IN  Called("clone", p.vals, << >>, FALSE, p.heap, clone(p.heap, p.vals[1]))
    /\ NoMoments

\* the caller changes the Date that clone returned
MutateClone ==
    /\ op = "clone"
    /\ ~res.thrown
    /\ \E t \in DayInputs :
         /\ t # heap[res.v.ref]
         /\ heap' = [heap EXCEPT ![res.v.ref] = t]
    /\ op' = "cloneMutated"
    /\ UNCHANGED <<dates, ranges, flag, pre, res, resRange, mom, momRange>>

CallIsDayInRange ==
    /\ Idle
    /\ \E d \in DayInputs \cup Absent, lo \in DayInputs \cup Absent,
          hi \in DayInputs \cup Absent, exclusive \in BOOLEAN :
         LET p == Placed(<<d, lo, hi>>)
             r == Range(p.vals[2], p.vals[3])
         IN  Called("isDayInRange", <<p.vals[1]>>, <<r>>, exclusive, p.heap,
                    isDayInRange(p.heap, p.vals[1], r, exclusive))
    /\ NoMoments

CallIsDayRangeInRange ==
    /\ Idle
    /\ \E lo1 \in BoundInputs \cup Absent, hi1 \in BoundInputs \cup Absent,
          lo2 \in BoundInputs \cup Absent, hi2 \in BoundInputs \cup Absent :
         LET p == Placed(<<lo1, hi1, lo2, hi2>>)
             inner == Range(p.vals[1], p.vals[2])
             outer == Range(p.vals[3], p.vals[4])
         IN  Called("isDayRangeInRange", << >>, <<inner, outer>>, FALSE, p.heap,
                    isDayRangeInRange(p.heap, inner, outer))
    /\ NoMoments

CallIsMonthInRange ==
    /\ Idle
    /\ \E d \in DayInputs \cup Absent, lo \in DayInputs \cup Absent,
          hi \in DayInputs \cup Absent :
         LET p == Placed(<<d, lo, hi>>)
             r == Range(p.vals[2], p.vals[3])
         IN  Called("isMonthInRange", <<p.vals[1]>>, <<r>>, FALSE, p.heap,
                    isMonthInRange(p.heap, p.vals[1], r))
    /\ NoMoments

CallIsTimeInRange ==
    /\ Idle
    /\ \E d \in TimeInputs, lo \in TimeInputs, hi \in TimeInputs :
         LET p == Placed(<<d, lo, hi>>)
         IN  Called("isTimeInRange", p.vals, << >>, FALSE, p.heap,
                    isTimeInRange(p.heap, p.vals[1], p.vals[2], p.vals[3]))
    /\ NoMoments

CallGetTimeInRange ==
    /\ Idle
    /\ \E d \in TimeInputs, lo \in TimeInputs, hi \in TimeInputs :
         LET p == Placed(<<d, lo, hi>>)
         IN  Called("getTimeInRange", p.vals, << >>, FALSE, p.heap,
                    getTimeInRange(p.heap, p.vals[1], p.vals[2], p.vals[3]))
    /\ NoMoments

\* the caller clamps the clamped time again, into the same window; the first
\* result is kept as dates[4]
CallGetTimeInRangeAgain ==
    /\ op = "getTimeInRange"
    /\ ~res.thrown
    /\ Called("getTimeInRangeAgain", Append(dates, res.v), ranges, flag, heap,
              getTimeInRange(heap, res.v, dates[2], dates[3]))
    /\ UNCHANGED <<resRange, mom, momRange>>

\* the date is absent (nothing picked yet) or present
CallGetDateTime ==
    /\ Idle
    /\ \E ds \in { Absent, DayInputs } :
         \E d \in ds, t \in TimeInputs \cup Absent :
            LET p == Placed(<<d, t>>)
            IN  Called("getDateTime", p.vals, << >>, FALSE, p.heap,
                       getDateTime(p.heap, p.vals[1], p.vals[2]))
    /\ NoMoments

CallGetDatePreviousMonth ==
    /\ Idle
    /\ \E d \in DayInputs :
         LET p == Placed(<<d>>)
         IN  Called("getDatePreviousMonth", p.vals, << >>, FALSE, p.heap,
                    getDatePreviousMonth(p.heap, p.vals[1]))
    /\ NoMoments

CallGetDateNextMonth ==
    /\ Idle
    /\ \E d \in DayInputs :
         LET p == Placed(<<d>>)
         IN  Called("getDateNextMonth", p.vals, << >>, FALSE, p.heap,
                    getDateNextMonth(p.heap, p.vals[1]))
    /\ NoMoments

\* the caller steps forward from the month getDatePreviousMonth returned
CallGetDateNextMonthOfPrevious ==
    /\ op = "getDatePreviousMonth"
    /\ ~res.thrown
    /\ Called("getDateNextMonthOfPrevious", dates, ranges, flag, heap,
              getDateNextMonth(heap, res.v))
    /\ UNCHANGED <<resRange, mom, momRange>>

CallFromDateToMoment ==
    /\ Idle
    /\ \E d \in DayInputs \cup TimeInputs \cup Absent :
         LET p == Placed(<<d>>)
         IN  /\ Called("fromDateToMoment", p.vals, << >>, FALSE, p.heap,
                       RetVal(p.heap, Undefined))
             /\ mom' = fromDateToMoment(p.heap, p.vals[1])
    /\ momRange' = NoMomentRange
    /\ resRange' = UndefinedRange

\* the moment passed is the one fromDateToMoment made, or an absent one
CallFromMomentToDate ==
    /\ \/ op = "fromDateToMoment" /\ mom' = mom
       \/ Idle /\ mom' \in { NullMoment, UndefinedMoment }
    /\ Called("fromMomentToDate", dates, ranges, flag, heap,
              fromMomentToDate(heap, mom'))
    /\ UNCHANGED <<resRange, momRange>>

CallFromDateRangeToMomentDateRange ==
    /\ Idle
    /\ \/ \E r \in { NullRange, UndefinedRange } :
            /\ Called("fromDateRangeToMomentDateRange", << >>, <<r>>, FALSE, << >>,
                      RetVal(<< >>, Undefined))
            /\ momRange' = fromDateRangeToMomentDateRange(<< >>, r)
       \/ \E lo \in DayInputs \cup Absent, hi \in DayInputs \cup Absent :
            LET p == Placed(<<lo, hi>>)
                r == Range(p.vals[1], p.vals[2])
            IN  /\ Called("fromDateRangeToMomentDateRange", << >>, <<r>>, FALSE, p.heap,
                          RetVal(p.heap, Undefined))
                /\ momRange' = fromDateRangeToMomentDateRange(p.heap, r)
    /\ mom' = NoMoment
    /\ resRange' = UndefinedRange

\* the moment range passed is the one fromDateRangeToMomentDateRange made, or
\* an absent one
CallFromMomentDateRangeToDateRange ==
    /\ \/ op = "fromDateRangeToMomentDateRange" /\ momRange' = momRange
       \/ Idle /\ momRange' \in { NullMomentRange, UndefinedMomentRange }
    /\ LET out == fromMomentDateRangeToDateRange(heap, momRange')
       IN  /\ Called("fromMomentDateRangeToDateRange", dates, ranges, flag, heap,
                     RetVal(out.heap, Undefined))
           /\ resRange' = out.range
    /\ UNCHANGED mom

Next ==
    \/ CallAreRangesEqual
    \/ CallClone
    \/ MutateClone
    \/ CallIsDayInRange
    \/ CallIsDayRangeInRange
    \/ CallIsMonthInRange
    \/ CallIsTimeInRange
    \/ CallGetTimeInRange
    \/ CallGetTimeInRangeAgain
    \/ CallGetDateTime
    \/ CallGetDatePreviousMonth
    \/ CallGetDateNextMonth
    \/ CallGetDateNextMonthOfPrevious
    \/ CallFromDateToMoment
    \/ CallFromMomentToDate
    \/ CallFromDateRangeToMomentDateRange
    \/ CallFromMomentDateRangeToDateRange
    \/ Return

Spec == Init /\ [][Next]_vars

(***************************************************************************)
(* The claims.  Their vocabulary is the calendar fields of the Dates the   *)
(* caller passed (the heap before the call), compared field by field.      *)
(***************************************************************************)
\* the time value the caller passed as v
Arg(v) == pre[v.ref]

TimeOfDay(t) == <<getHours(t), getMinutes(t), getSeconds(t), getMilliseconds(t)>>
CalendarDay(t) == <<getFullYear(t), getMonth(t), getDate(t)>>

\* a <= b for tuples of the same length, in lexicographic order
RECURSIVE LexLeq(_, _)
LexLeq(a, b) ==
    IF a = << >> THEN TRUE
    ELSE Head(a) < Head(b) \/ (Head(a) = Head(b) /\ LexLeq(Tail(a), Tail(b)))

TodLeq(t1, t2) == LexLeq(TimeOfDay(t1), TimeOfDay(t2))
DayLeq(t1, t2) == LexLeq(CalendarDay(t1), CalendarDay(t2))

\* the time of day of t lies in the window min .. max, which wraps past
\* midnight when max's time of day is not after min's
InWindow(t, min, max) ==
    IF TodLeq(max, min) THEN TodLeq(min, t) \/ TodLeq(t, max)
    ELSE TodLeq(min, t) /\ TodLeq(t, max)

HasTime(t, h, mi) == TimeOfDay(t) = <<h, mi, 0, 0>>

\* C1: isTimeInRange compares only the times of day of its three Dates: in a
\* window that wraps past midnight (max's time of day <= min's) it is true iff
\* the date's time of day is >= min's or <= max's, otherwise iff it is >= min's
\* and <= max's; with min 23:00 and max 01:00 it is true for 23:30 and 00:30
\* and false for 12:00.
C1_IsTimeInRange ==
    op = "isTimeInRange" =>
        LET t == Arg(dates[1])
            min == Arg(dates[2])
            max == Arg(dates[3])
        IN  /\ ~res.thrown
            /\ res.b = InWindow(t, min, max)
            /\ (HasTime(min, 23, 0) /\ HasTime(max, 1, 0)) =>
                   /\ (HasTime(t, 23, 30) \/ HasTime(t, 0, 30)) => res.b
                   /\ HasTime(t, 12, 0) => ~res.b

\* a time after midnight accepted by a wrapping window, the three Dates not all
\* on one calendar day
C1_Witness ==
    /\ op = "isTimeInRange"
    /\ res.b
    /\ HasTime(Arg(dates[2]), 23, 0)
    /\ HasTime(Arg(dates[3]), 1, 0)
    /\ HasTime(Arg(dates[1]), 0, 30)
    /\ CalendarDay(Arg(dates[1])) # CalendarDay(Arg(dates[2]))

\* C2: getTimeInRange returns maxTime when minTime and maxTime have the same
\* time of day, else time itself (unchanged) when it is in range, else maxTime
\* when time's time of day is same-or-after maxTime's, else minTime: always one
\* of its three arguments.
C2_GetTimeInRange ==
    op = "getTimeInRange" =>
        LET t == Arg(dates[1])
            min == Arg(dates[2])
            max == Arg(dates[3])
        IN  /\ ~res.thrown
            /\ res.v = IF TimeOfDay(min) = TimeOfDay(max) THEN dates[3]
                       ELSE IF InWindow(t, min, max) THEN dates[1]
                       ELSE IF TodLeq(max, t) THEN dates[3]
                       ELSE dates[2]
            /\ res.v \in { dates[1], dates[2], dates[3] }
            /\ heap[res.v.ref] = Arg(res.v)

\* a time before the window, clamped to minTime
C2_Witness ==
    /\ op = "getTimeInRange"
    /\ res.v = dates[2]
    /\ ~InWindow(Arg(dates[1]), Arg(dates[2]), Arg(dates[3]))
    /\ TimeOfDay(Arg(dates[1])) # TimeOfDay(Arg(dates[2]))

\* C3: isDayInRange is false for an absent date; for a present date, start and
\* end it is true iff the date's calendar day lies between those of start and
\* end and, when exclusive, is neither of them.  The times of day play no part.
C3_IsDayInRange ==
    op = "isDayInRange" =>
        /\ IsNullish(dates[1]) => ~res.thrown /\ ~res.b
        /\ (~IsNullish(dates[1]) /\ ~IsNullish(ranges[1].lo) /\ ~IsNullish(ranges[1].hi)) =>
               LET day == Arg(dates[1])
                   start == Arg(ranges[1].lo)
                   end == Arg(ranges[1].hi)
               IN  /\ ~res.thrown
                   /\ res.b = (/\ DayLeq(start, day)
                               /\ DayLeq(day, end)
                               /\ flag => ( /\ CalendarDay(day) # CalendarDay(start)
                                            /\ CalendarDay(day) # CalendarDay(end) ))

\* a date on the last day of the range, later in that day than the end bound
C3_Witness ==
    /\ op = "isDayInRange"
    /\ ~IsNullish(dates[1]) /\ ~IsNullish(ranges[1].lo) /\ ~IsNullish(ranges[1].hi)
    /\ ~flag
    /\ res.b
    /\ CalendarDay(Arg(dates[1])) = CalendarDay(Arg(ranges[1].hi))
    /\ CalendarDay(Arg(ranges[1].lo)) # CalendarDay(Arg(ranges[1].hi))
    /\ ~TimeLeq(Arg(dates[1]), Arg(ranges[1].hi))

\* C4: isDayInRange, isMonthInRange and isDayRangeInRange, called with a
\* present date (or inner bound) and a range with an absent start or end,
\* complete and return a boolean instead of raising an error.
C4_AbsentBoundDoesNotThrow ==
    /\ ( /\ op \in { "isDayInRange", "isMonthInRange" }
         /\ ~IsNullish(dates[1])
         /\ (IsNullish(ranges[1].lo) \/ IsNullish(ranges[1].hi)) )
       => ~res.thrown
    /\ ( /\ op = "isDayRangeInRange"
         /\ (~IsNullish(ranges[1].lo) \/ ~IsNullish(ranges[1].hi))
         /\ (IsNullish(ranges[2].lo) \/ IsNullish(ranges[2].hi)) )
       => ~res.thrown

\* C5: getDateTime gives an absent result for an absent date (null or
\* undefined), the date's year, month and day at 00:00:00.000 for a present
\* date and an absent time, and the date's year, month and day with the time's
\* hour, minute, second and millisecond otherwise; it never raises an error.
C5_GetDateTime ==
    op = "getDateTime" =>
        /\ ~res.thrown
        /\ IsNullish(dates[1]) => IsNullish(res.v)
        /\ ~IsNullish(dates[1]) =>
               /\ ~IsNullish(res.v)
               /\ CalendarDay(heap[res.v.ref]) = CalendarDay(Arg(dates[1]))
               /\ TimeOfDay(heap[res.v.ref]) =
                      IF IsNullish(dates[2]) THEN <<0, 0, 0, 0>>
                      ELSE TimeOfDay(Arg(dates[2]))

\* two bounds on the same side match: both absent, or both present and on the
\* same calendar day
BoundsMatch(h, v1, v2) ==
    \/ IsNullish(v1) /\ IsNullish(v2)
    \/ /\ ~IsNullish(v1)
       /\ ~IsNullish(v2)
       /\ CalendarDay(h[v1.ref]) = CalendarDay(h[v2.ref])

\* C6: areRangesEqual is true when both ranges are absent, false when exactly
\* one is, and otherwise true iff the starts match and the ends match, two
\* bounds matching iff both are absent or both are present and on the same
\* calendar day; it is symmetric in its arguments.
C6_AreRangesEqual ==
    op = "areRangesEqual" =>
        LET r1 == ranges[1]
            r2 == ranges[2]
        IN  /\ ~res.thrown
            /\ (r1.tag # "range" /\ r2.tag # "range") => res.b
            /\ ((r1.tag = "range") # (r2.tag = "range")) => ~res.b
            /\ (r1.tag = "range" /\ r2.tag = "range") =>
                   res.b = (BoundsMatch(pre, r1.lo, r2.lo) /\ BoundsMatch(pre, r1.hi, r2.hi))
            /\ res.b = areRangesEqual(pre, r2, r1)

\* two ranges with absent starts and ends on one calendar day at different
\* times of day
C6_Witness ==
    /\ op = "areRangesEqual"
    /\ res.b
    /\ ranges[1].tag = "range" /\ ranges[2].tag = "range"
    /\ IsNullish(ranges[1].lo) /\ IsNullish(ranges[2].lo)
    /\ ~IsNullish(ranges[1].hi) /\ ~IsNullish(ranges[2].hi)
    /\ Arg(ranges[1].hi) # Arg(ranges[2].hi)

\* C7: no call changes a Date of the caller: every Date that was on the heap
\* before the call holds the same timestamp after it; clone returns another
\* Date, equal to its argument, and a later change of the clone leaves the
\* argument as it was.
C7_ArgumentsNotMutated ==
    /\ Len(pre) <= Len(heap)
    /\ \A i \in 1 .. Len(pre) : heap[i] = pre[i]
    /\ (op = "clone" /\ ~res.thrown) =>
           res.v # dates[1] /\ areEqual(heap, res.v, dates[1])
    /\ op = "cloneMutated" =>
           res.v # dates[1] /\ heap[dates[1].ref] = Arg(dates[1])

\* isDayInRange has zeroed the time of day of its copy of a date whose own time
\* of day is not zero
C7_Witness ==
    /\ op = "isDayInRange"
    /\ ~res.thrown
    /\ ~IsNullish(dates[1])
    /\ Arg(dates[1]).ms # 0
    /\ \E i \in Len(pre) + 1 .. Len(heap) :
           heap[i] = setHoursOf(Arg(dates[1]), 0, 0, 0, 0)

\* C8: getDatePreviousMonth(d) is the 1st at 00:00:00.000 of the month before
\* d's (December of the year before for a January), getDateNextMonth(d) the
\* 1st at 00:00:00.000 of the month after d's (January of the year after for a
\* December), for every present date d; and getDateNextMonth of
\* getDatePreviousMonth(d) is in the month and year of d.
C8_MonthStepping ==
    /\ op = "getDatePreviousMonth" =>
           LET d == CalendarDay(Arg(dates[1]))
           IN  /\ ~res.thrown
               /\ CalendarDay(heap[res.v.ref]) =
                      IF d[2] = 0 THEN <<d[1] - 1, 11, 1>> ELSE <<d[1], d[2] - 1, 1>>
               /\ TimeOfDay(heap[res.v.ref]) = <<0, 0, 0, 0>>
    /\ op = "getDateNextMonth" =>
           LET d == CalendarDay(Arg(dates[1]))
           IN  /\ ~res.thrown
               /\ CalendarDay(heap[res.v.ref]) =
                      IF d[2] = 11 THEN <<d[1] + 1, 0, 1>> ELSE <<d[1], d[2] + 1, 1>>
               /\ TimeOfDay(heap[res.v.ref]) = <<0, 0, 0, 0>>
    /\ op = "getDateNextMonthOfPrevious" =>
           /\ ~res.thrown
           /\ getFullYear(heap[res.v.ref]) = getFullYear(heap[dates[1].ref])
           /\ getMonth(heap[res.v.ref]) = getMonth(heap[dates[1].ref])

\* the fields of the moment m are those of the time value t
SameFields(m, t) ==
    /\ m.tag = "moment"
    /\ ~IsInvalidTime(m.t)
    /\ CalendarDay(m.t) = CalendarDay(t)
    /\ TimeOfDay(m.t) = TimeOfDay(t)

\* C9: a present Date taken to a moment by fromDateToMoment and back by
\* fromMomentToDate comes back equal under areEqual; the range variants give an
\* absent range for an absent range and otherwise convert bound by bound.
C9_MomentRoundTrip ==
    /\ (op = "fromMomentToDate" /\ Len(dates) = 1 /\ ~IsNullish(dates[1])) =>
           /\ SameFields(mom, heap[dates[1].ref])
           /\ ~IsNullish(res.v)
           /\ areEqual(heap, res.v, dates[1])
    /\ op = "fromDateRangeToMomentDateRange" =>
           /\ ranges[1].tag # "range" => momRange.tag = "undefined"
           /\ ranges[1].tag = "range" =>
                  /\ momRange.tag = "range"
                  /\ momRange.lo = fromDateToMoment(heap, ranges[1].lo)
                  /\ momRange.hi = fromDateToMoment(heap, ranges[1].hi)
    /\ op = "fromMomentDateRangeToDateRange" =>
           /\ momRange.tag # "range" => resRange.tag = "undefined"
           /\ momRange.tag = "range" =>
                  /\ resRange.tag = "range"
                  /\ \A b \in { <<ranges[1].lo, resRange.lo>>, <<ranges[1].hi, resRange.hi>> } :
                         ~IsNullish(b[1]) => areEqual(heap, b[1], b[2])

\* C10: the time r that getTimeInRange returns is in range, isTimeInRange(r,
\* minTime, maxTime); clamping r again gives a time with r's time of day; and in
\* a window that wraps past midnight a time out of range is clamped to maxTime.
C10_ClampSound ==
    /\ op = "getTimeInRange" =>
           /\ ~res.thrown
           /\ isTimeInRange(heap, res.v, dates[2], dates[3]).b
           /\ InWindow(heap[res.v.ref], Arg(dates[2]), Arg(dates[3]))
           /\ ( /\ ~TodLeq(Arg(dates[2]), Arg(dates[3]))
                /\ ~InWindow(Arg(dates[1]), Arg(dates[2]), Arg(dates[3])) )
              => res.v = dates[3]
    /\ op = "getTimeInRangeAgain" =>
           /\ ~res.thrown
           /\ areSameTime(heap, res.v, dates[4])

\* noon clamped into the window 23:00 .. 01:00, and clamped again
C10_Witness ==
    /\ op = "getTimeInRangeAgain"
    /\ HasTime(heap[dates[1].ref], 12, 0)
    /\ HasTime(heap[dates[2].ref], 23, 0)
    /\ HasTime(heap[dates[3].ref], 1, 0)
    /\ dates[4] = dates[3]
    /\ res.v = dates[3]

====
